---- MODULE Spec2Model ----
(***************************************************************************)
(* Model of blaze/constructors.py: the array construction dispatcher       *)
(* (array, _fromiter, zeros, ones, open).  Each Python function is an      *)
(* operator that maps its arguments to an outcome (returned handle or      *)
(* raised error, the generator's position afterwards, the engines that     *)
(* were constructed, the capability dictionary afterwards); each Call      *)
(* action is one call made by a client of the module.                      *)
(***************************************************************************)
EXTENDS Integers, Sequences, FiniteSets, TLC

\* ---------------------------------------------------------------- bounds
MaxElem == 2
MaxLen == 2
MaxDims == 1
MaxExtent == 2
MaxCalls == 2

VARIABLES pc, call, outcome, defaults, ncalls

vars == <<pc, call, outcome, defaults, ncalls>>

\* ------------------------------------------------------------ value sets
\* Scalar element values: zero and a value that is neither 0 nor 1.
Elems == {0, MaxElem}

RECURSIVE SeqsUpTo(_, _)
SeqsUpTo(S, n) ==
    IF n = 0 THEN {<<>>}
    ELSE LET shorter == SeqsUpTo(S, n - 1)
         IN  shorter \cup {Append(s, x) : s \in {t \in shorter : Len(t) = n - 1}, x \in S}

Payloads == SeqsUpTo(Elems, MaxLen)

CapKeys == {"efficient-write", "compress"}

\* A capability dictionary: a mapping from some of the keys to a flag.
CapsDicts == UNION {[K -> BOOLEAN] : K \in SUBSET CapKeys}

\* The default value of the caps parameter.
DefaultCaps == [k \in {"efficient-write"} |-> TRUE]

\* Element type tags of the datashape notation, and the dtypes of stores.
DTypes == {"int32", "float64", "bool"}

\* Pre-existing array objects handed in by the caller (id > 0 names the
\* caller's object; a store allocated during a call has id 0).
NDArrays ==
    {[kind |-> "ndarray", id |-> 1, shape |-> <<Len(d)>>, dtype |-> t, data |-> d] :
        d \in Payloads, t \in {"int32", "float64"}}

BArrays ==
    {[kind |-> "barray", id |-> 1, shape |-> <<Len(d)>>, dtype |-> t, data |-> d] :
        d \in Payloads, t \in {"int32", "float64"}}

DDVariants == {"native-buffer", "compressed-chunked", "foreign"}

Descriptors ==
    {[kind |-> "dd", variant |-> v,
      store |-> [kind |-> "opaque", id |-> 1, shape |-> <<Len(d)>>,
                 dtype |-> "int32", data |-> d]] :
        v \in DDVariants, d \in Payloads}

\* A fresh generator: items it will yield, and how many it has yielded.
Generators ==
    {[kind |-> "generator", id |-> 1, items |-> d, pos |-> 0] : d \in Payloads}

\* Anything else: a list of scalars, a bare scalar, an object of some
\* other type.
Generics ==
    {[kind |-> "list", id |-> 1, data |-> d] : d \in Payloads}
    \cup {[kind |-> "scalar", id |-> 1, data |-> <<v>>] : v \in Elems}
    \cup {[kind |-> "object", id |-> 1]}

Objs == Descriptors \cup NDArrays \cup BArrays \cup Generators \cup Generics

\* ---------------------------------------------------------- datashapes
Unbound == 0 - 1

Extents == 0..MaxExtent

ExtentTokens == {ToString(n) : n \in Extents}

\* Dimension lists: at most the outermost dimension is unbound.
DimLists ==
    {s \in SeqsUpTo(Extents \cup {Unbound}, MaxDims) :
        \A i \in 2..Len(s) : s[i] # Unbound}

NoneDShape == [form |-> "none"]

StructDShapes == {[form |-> "struct", dims |-> s, dtype |-> t] : s \in DimLists, t \in DTypes}

DimToken(n) == IF n = Unbound THEN "var" ELSE ToString(n)

\* The text of a datashape, as its token list ("2, int32" is <<"2", "int32">>).
Render(ds) == [i \in 1..(Len(ds.dims) + 1) |->
                 IF i <= Len(ds.dims) THEN DimToken(ds.dims[i]) ELSE ds.dtype]

MalformedTexts == {<<>>, <<"@">>, <<"2">>, <<"int32", "2">>, <<"2", "@">>}

TextDShapes ==
    {[form |-> "text", text |-> Render(ds)] : ds \in StructDShapes}
    \cup {[form |-> "text", text |-> t] : t \in MalformedTexts}

DShapes == {NoneDShape} \cup StructDShapes \cup TextDShapes

\* ------------------------------------------------- results of evaluation
Ok(v) == [ok |-> TRUE, val |-> v]

Raise(e) == [ok |-> FALSE, err |-> e]

NoHandle == [tag |-> "none"]

\* What one call leaves behind: the handle returned (or none), the error
\* raised ("" for none), the input object afterwards (a generator moves),
\* the storage engines constructed, and the caps dictionary afterwards.
Returned(h, obj, built, caps) ==
    [ret |-> h, err |-> "", obj |-> obj, built |-> built, caps |-> caps]

Raised(e, obj, built, caps) ==
    [ret |-> NoHandle, err |-> e, obj |-> obj, built |-> built, caps |-> caps]

NoObj == [kind |-> "absent"]

\* ------------------------------------------------------- collaborators
_is_str(s) == s.form = "text"

DimValue(tok) == IF tok = "var" THEN Unbound ELSE CHOOSE n \in Extents : ToString(n) = tok

\* The datashape parser: dimension tokens (only the first may be "var")
\* followed by one element type tag; anything else is a parse error.
_dshape_builder(text) ==
    IF /\ Len(text) >= 1
       /\ text[Len(text)] \in DTypes
       /\ \A i \in 1..(Len(text) - 1) :
             text[i] \in ExtentTokens \/ (i = 1 /\ text[i] = "var")
    THEN Ok([form |-> "struct",
             dims |-> [i \in 1..(Len(text) - 1) |-> DimValue(text[i])],
             dtype |-> text[Len(text)]])
    ELSE Raise("ParseError")

to_dtype(ds) == ds.dtype

\* The numeric projection (shape tuple, dtype): needs every extent fixed.
to_numpy(ds) ==
    IF \E i \in 1..Len(ds.dims) : ds.dims[i] = Unbound
    THEN Raise("ShapeProjectionError")
    ELSE Ok([shape |-> [isNone |-> FALSE, dims |-> ds.dims], dt |-> ds.dtype])

NoneShapeDt == [shape |-> [isNone |-> TRUE], dt |-> "None"]

\* Conversion of a scalar to an element type: bool keeps only zero/nonzero;
\* the bounded integers are exact in int32, int64 and float64.
Cast(v, dt) == IF dt = "bool" THEN (IF v = 0 THEN 0 ELSE 1) ELSE v

CastAll(d, dt) == [i \in 1..Len(d) |-> Cast(d[i], dt)]

RECURSIVE Product(_)
Product(s) == IF Len(s) = 0 THEN 1 ELSE Head(s) * Product(Tail(s))

Store(k, shape, dt, data) ==
    [kind |-> k, id |-> 0, shape |-> shape, dtype |-> dt, data |-> data]

\* construct-from-value of an engine: a list becomes a 1-d array, a scalar
\* a 0-d array; an object of another type is held by reference when no
\* element type is asked for and cannot be converted to a numeric one.
FromValue(k, obj, dt) ==
    IF obj.kind = "object"
    THEN IF dt = "None" THEN Ok(Store(k, <<>>, "object", <<obj.id>>))
         ELSE Raise("CoercionError")
    ELSE LET t == IF dt = "None" THEN "int64" ELSE dt
             shape == IF obj.kind = "scalar" THEN <<>> ELSE <<Len(obj.data)>>
         IN  Ok(Store(k, shape, t, CastAll(obj.data, t)))

np_array(obj, dt) == FromValue("ndarray", obj, dt)

blz_barray(obj, dt) == FromValue("barray", obj, dt)

\* next(gen): the generator after yielding its next item.
Advance(gen) == [gen EXCEPT !.pos = @ + 1]

\* construct-from-iterator: pull until the generator is exhausted.
RECURSIVE Drain(_, _)
Drain(gen, acc) ==
    IF gen.pos >= Len(gen.items) THEN [gen |-> gen, data |-> acc]
    ELSE Drain(Advance(gen), Append(acc, gen.items[gen.pos + 1]))

FromIter(k, gen, dt) ==
    LET t == IF dt = "None" THEN "float64" ELSE dt
        r == Drain(gen, <<>>)
    IN  [gen |-> r.gen, arr |-> Store(k, <<Len(r.data)>>, t, CastAll(r.data, t))]

np_fromiter(gen, dt) == FromIter("ndarray", gen, dt)

\* count = -1: the engine assumes no final length and reads to the end.
blz_fromiter(gen, dt, count) ==
    IF count = 0 - 1 THEN FromIter("barray", gen, dt)
    ELSE LET cut == [gen EXCEPT !.items = SubSeq(@, 1, gen.pos + count)]
             r == FromIter("barray", cut, dt)
         IN  [gen |-> [r.gen EXCEPT !.items = gen.items], arr |-> r.arr]

\* construct-filled: env says what the installed engine makes of a None
\* shape: the empty shape () (a 0-d array) or an error.
Filled(k, shape, dt, v, env) ==
    LET t == IF dt = "None" THEN "float64" ELSE dt
    IN  IF shape.isNone
        THEN IF env = "scalar" THEN Ok(Store(k, <<>>, t, <<Cast(v, t)>>))
             ELSE Raise("EngineShapeError")
        ELSE Ok(Store(k, shape.dims, t, [i \in 1..Product(shape.dims) |-> Cast(v, t)]))

np_zeros(shape, dt, env) == Filled("ndarray", shape, dt, 0, env)

np_ones(shape, dt, env) == Filled("ndarray", shape, dt, 1, env)

blz_zeros(shape, dt, env) == Filled("barray", shape, dt, 0, env)

blz_ones(shape, dt, env) == Filled("barray", shape, dt, 1, env)

NumPyDataDescriptor(a) == [kind |-> "dd", variant |-> "native-buffer", store |-> a]

BLZDataDescriptor(b) == [kind |-> "dd", variant |-> "compressed-chunked", store |-> b]

Array(dd) == [tag |-> "handle", dd |-> dd]

\* ------------------------------------------------------ constructors.py
IsNone(ds) == ds.form = "none"

\* dshape = dshape if not _is_str(dshape) else _dshape_builder(dshape)
array_dshape(dshape) ==
    IF ~_is_str(dshape) THEN Ok(dshape) ELSE _dshape_builder(dshape.text)

_fromiter_dshape(dshape) ==
    IF ~_is_str(dshape) THEN Ok(dshape) ELSE _dshape_builder(dshape.text)

zeros_dshape(dshape) ==
    IF ~_is_str(dshape) THEN Ok(dshape) ELSE _dshape_builder(dshape.text)

ones_dshape(dshape) ==
    IF ~_is_str(dshape) THEN Ok(dshape) ELSE _dshape_builder(dshape.text)

\* Faulty variant: no key falls back to the native engine instead of raising.
array_backend_default_numpy(caps) ==
    IF "efficient-write" \in DOMAIN caps THEN "numpy"
    ELSE IF "compress" \in DOMAIN caps THEN "blz"
    ELSE "numpy"

\* The if/elif chain on the capability keys: "raise" is array's else
\* branch, "unbound" the fall-through that leaves dd unassigned.
array_backend(caps) ==
    IF "efficient-write" \in DOMAIN caps THEN "numpy"
    ELSE IF "compress" \in DOMAIN caps THEN "blz"
    ELSE "raise"

_fromiter_backend(caps) ==
    IF "efficient-write" \in DOMAIN caps THEN "numpy"
    ELSE IF "compress" \in DOMAIN caps THEN "blz"
    ELSE "unbound"

\* Faulty variant: the two tests in the other order.
zeros_backend_compress_first(caps) ==
    IF "compress" \in DOMAIN caps THEN "blz"
    ELSE IF "efficient-write" \in DOMAIN caps THEN "numpy"
    ELSE "unbound"

zeros_backend(caps) ==
    IF "efficient-write" \in DOMAIN caps THEN "numpy"
    ELSE IF "compress" \in DOMAIN caps THEN "blz"
    ELSE "unbound"

\* Faulty variant: a key counts only when its flag is true.
ones_backend_flags(caps) ==
    IF "efficient-write" \in DOMAIN caps /\ caps["efficient-write"] THEN "numpy"
    ELSE IF "compress" \in DOMAIN caps /\ caps["compress"] THEN "blz"
    ELSE "unbound"

ones_backend(caps) ==
    IF "efficient-write" \in DOMAIN caps THEN "numpy"
    ELSE IF "compress" \in DOMAIN caps THEN "blz"
    ELSE "unbound"

\* dt = None if dshape is None else to_dtype(dshape)
DtOf(ds) == IF IsNone(ds) THEN "None" ELSE to_dtype(ds)

\* Variant with a guard the source does not have: an absent dshape is refused.
ShapeDtOf_strict(ds) == IF IsNone(ds) THEN Raise("MissingShape") ELSE to_numpy(ds)

\* shape, dt = (None,None) if dshape is None else to_numpy(dshape)
ShapeDtOf(ds) == IF IsNone(ds) THEN Ok(NoneShapeDt) ELSE to_numpy(ds)

\* Faulty variant: dd initialised to None, so a handle over nothing is returned.
UnassignedDd_none(obj, caps) == Returned(Array(NoObj), obj, <<>>, caps)

\* return Array(dd) when no branch assigned dd: reading dd raises.
UnassignedDd(obj, caps) == Raised("UnboundLocalError", obj, <<>>, caps)

\* Faulty variant: blz.fromiter told to expect no elements (count=0).
_fromiter_build_count0(b, gen, dt) ==
    IF b = "numpy" THEN np_fromiter(gen, dt) ELSE blz_fromiter(gen, dt, 0)

\* np.fromiter(gen, dtype=dt) / blz.fromiter(gen, dtype=dt, count=-1)
_fromiter_build(b, gen, dt) ==
    IF b = "numpy" THEN np_fromiter(gen, dt) ELSE blz_fromiter(gen, dt, 0 - 1)

\* Faulty variant: the key is taken out of caps (caps.pop) when it is tested.
_fromiter_pops(gen, dshape, caps) ==
    LET p == _fromiter_dshape(dshape)
        b == _fromiter_backend(caps)
        left == [k \in DOMAIN caps \ {"efficient-write"} |-> caps[k]]
    IN  IF ~p.ok THEN Raised(p.err, gen, <<>>, caps)
        ELSE IF b = "unbound" THEN UnassignedDd(gen, caps)
        ELSE LET r == _fromiter_build(b, gen, DtOf(p.val))
             IN  IF b = "numpy"
                 THEN Returned(Array(NumPyDataDescriptor(r.arr)), r.gen, <<"numpy">>, left)
                 ELSE Returned(Array(BLZDataDescriptor(r.arr)), r.gen, <<"blz">>, caps)

_fromiter(gen, dshape, caps) ==
    LET p == _fromiter_dshape(dshape)
        b == _fromiter_backend(caps)
    IN  IF ~p.ok THEN Raised(p.err, gen, <<>>, caps)
        ELSE IF b = "unbound" THEN UnassignedDd(gen, caps)
        ELSE LET r == _fromiter_build(b, gen, DtOf(p.val))
             IN  IF b = "numpy"
                 THEN Returned(Array(NumPyDataDescriptor(r.arr)), r.gen, <<"numpy">>, caps)
                 ELSE Returned(Array(BLZDataDescriptor(r.arr)), r.gen, <<"blz">>, caps)

\* Faulty variant: a native array is copied (np.array(obj)) before wrapping.
array_wrap_copy(obj) ==
    IF obj.kind = "dd" THEN obj
    ELSE IF obj.kind = "ndarray"
    THEN NumPyDataDescriptor(Store("ndarray", obj.shape, obj.dtype, obj.data))
    ELSE BLZDataDescriptor(obj)

\* The first three branches: the descriptor obj is, or one put around obj.
array_wrap(obj) ==
    IF obj.kind = "dd" THEN obj
    ELSE IF obj.kind = "ndarray" THEN NumPyDataDescriptor(obj)
    ELSE BLZDataDescriptor(obj)

\* The branches of array() after the dshape argument is resolved.
array_dispatch(obj, ds, caps) ==
    IF obj.kind \in {"dd", "ndarray", "barray"}
    THEN Returned(Array(array_wrap(obj)), obj, <<>>, caps)
    ELSE IF obj.kind = "generator" THEN _fromiter(obj, ds, caps)
    ELSE IF array_backend(caps) = "numpy"
    THEN LET a == np_array(obj, DtOf(ds))
         IN  IF a.ok THEN Returned(Array(NumPyDataDescriptor(a.val)), obj, <<"numpy">>, caps)
             ELSE Raised(a.err, obj, <<>>, caps)
    ELSE IF array_backend(caps) = "blz"
    THEN LET a == blz_barray(obj, DtOf(ds))
         IN  IF a.ok THEN Returned(Array(BLZDataDescriptor(a.val)), obj, <<"blz">>, caps)
             ELSE Raised(a.err, obj, <<>>, caps)
    ELSE Raised("TypeError", obj, <<>>, caps)

\* Faulty variant: the dshape text is parsed only where dshape is used.
array_parse_late(obj, dshape, caps) ==
    IF obj.kind \in {"dd", "ndarray", "barray"} THEN array_dispatch(obj, dshape, caps)
    ELSE LET p == array_dshape(dshape)
         IN  IF ~p.ok THEN Raised(p.err, obj, <<>>, caps)
             ELSE array_dispatch(obj, p.val, caps)

array(obj, dshape, caps) ==
    LET p == array_dshape(dshape)
    IN  IF ~p.ok THEN Raised(p.err, obj, <<>>, caps)
        ELSE array_dispatch(obj, p.val, caps)

\* np.zeros(shape, dtype=dt) / blz.zeros(shape, dtype=dt)
zeros_fill(b, shape, dt, env) ==
    IF b = "numpy" THEN np_zeros(shape, dt, env) ELSE blz_zeros(shape, dt, env)

zeros(dshape, caps, env) ==
    LET p == zeros_dshape(dshape)
        b == zeros_backend(caps)
    IN  IF ~p.ok THEN Raised(p.err, NoObj, <<>>, caps)
        ELSE IF b = "unbound" THEN UnassignedDd(NoObj, caps)
        ELSE LET sd == ShapeDtOf(p.val)
             IN  IF ~sd.ok THEN Raised(sd.err, NoObj, <<>>, caps)
                 ELSE LET a == zeros_fill(b, sd.val.shape, sd.val.dt, env)
                      IN  IF ~a.ok THEN Raised(a.err, NoObj, <<>>, caps)
                          ELSE IF b = "numpy"
                          THEN Returned(Array(NumPyDataDescriptor(a.val)), NoObj, <<"numpy">>, caps)
                          ELSE Returned(Array(BLZDataDescriptor(a.val)), NoObj, <<"blz">>, caps)

\* Faulty variant: ones calling the zeros primitives.
ones_fill_zero(b, shape, dt, env) ==
    IF b = "numpy" THEN np_zeros(shape, dt, env) ELSE blz_zeros(shape, dt, env)

\* np.ones(shape, dtype=dt) / blz.ones(shape, dtype=dt)
ones_fill(b, shape, dt, env) ==
    IF b = "numpy" THEN np_ones(shape, dt, env) ELSE blz_ones(shape, dt, env)

ones(dshape, caps, env) ==
    LET p == ones_dshape(dshape)
        b == ones_backend(caps)
    IN  IF ~p.ok THEN Raised(p.err, NoObj, <<>>, caps)
        ELSE IF b = "unbound" THEN UnassignedDd(NoObj, caps)
        ELSE LET sd == ShapeDtOf(p.val)
             IN  IF ~sd.ok THEN Raised(sd.err, NoObj, <<>>, caps)
                 ELSE LET a == ones_fill(b, sd.val.shape, sd.val.dt, env)
                      IN  IF ~a.ok THEN Raised(a.err, NoObj, <<>>, caps)
                          ELSE IF b = "numpy"
                          THEN Returned(Array(NumPyDataDescriptor(a.val)), NoObj, <<"numpy">>, caps)
                          ELSE Returned(Array(BLZDataDescriptor(a.val)), NoObj, <<"blz">>, caps)

open(uri) == Raised("NotImplementedError", NoObj, <<>>, <<>>)

\* ----------------------------------------------------------- the client
\* The caps argument of a call: left out (the function's default
\* dictionary is used) or a dictionary of the caller's.
CapsArgs == {[given |-> FALSE]} \cup {[given |-> TRUE, caps |-> c] : c \in CapsDicts}

Functions == {"array", "zeros", "ones"}

\* What the installed engine does with a None shape.
Envs == {"scalar", "error"}

NoCall == [op |-> "none"]

NoOutcome == [err |-> "none"]

CapsSeen(f, arg) == IF arg.given THEN arg.caps ELSE defaults[f]

Finish(f, arg, o) ==
    /\ outcome' = o
    /\ defaults' = IF arg.given THEN defaults ELSE [defaults EXCEPT ![f] = o.caps]
    /\ ncalls' = ncalls + 1
    /\ pc' = "returned"

Init ==
    /\ pc = "ready"
    /\ call = NoCall
    /\ outcome = NoOutcome
    /\ defaults = [f \in Functions |-> DefaultCaps]
    /\ ncalls = 0

CallArray(obj, dshape, arg) ==
    /\ pc = "ready"
    /\ call' = [op |-> "array", obj |-> obj, dshape |-> dshape,
                caps |-> CapsSeen("array", arg), given |-> arg.given, env |-> "unused"]
    /\ Finish("array", arg, array(obj, dshape, CapsSeen("array", arg)))

CallFromiter(gen, dshape, caps) ==
    /\ pc = "ready"
    /\ call' = [op |-> "_fromiter", obj |-> gen, dshape |-> dshape,
                caps |-> caps, given |-> TRUE, env |-> "unused"]
    /\ Finish("array", [given |-> TRUE, caps |-> caps], _fromiter(gen, dshape, caps))

CallZeros(dshape, arg, env) ==
    /\ pc = "ready"
    /\ call' = [op |-> "zeros", obj |-> NoObj, dshape |-> dshape,
                caps |-> CapsSeen("zeros", arg), given |-> arg.given, env |-> env]
    /\ Finish("zeros", arg, zeros(dshape, CapsSeen("zeros", arg), env))

CallOnes(dshape, arg, env) ==
    /\ pc = "ready"
    /\ call' = [op |-> "ones", obj |-> NoObj, dshape |-> dshape,
                caps |-> CapsSeen("ones", arg), given |-> arg.given, env |-> env]
    /\ Finish("ones", arg, ones(dshape, CapsSeen("ones", arg), env))

CallOpen(uri) ==
    /\ pc = "ready"
    /\ call' = [op |-> "open", obj |-> NoObj, dshape |-> NoneDShape,
                caps |-> <<>>, given |-> TRUE, env |-> "unused"]
    /\ Finish("array", [given |-> TRUE], open(uri))

\* The caller is done with the result of the call and goes on.
Release ==
    /\ pc = "returned"
    /\ pc' = "ready"
    /\ call' = NoCall
    /\ outcome' = NoOutcome
    /\ UNCHANGED <<defaults, ncalls>>

\* Calls are made one at a time by a client that is not inside a call.
CanCall == pc = "ready" /\ ncalls < MaxCalls

Next ==
    \/ CanCall /\ \E obj \in Objs, dshape \in DShapes, arg \in CapsArgs :
                    CallArray(obj, dshape, arg)
    \/ CanCall /\ \E gen \in Generators, dshape \in DShapes, caps \in CapsDicts :
                    CallFromiter(gen, dshape, caps)
    \/ CanCall /\ \E dshape \in DShapes, arg \in CapsArgs, env \in Envs :
                    CallZeros(dshape, arg, env)
    \/ CanCall /\ \E dshape \in DShapes, arg \in CapsArgs, env \in Envs :
                    CallOnes(dshape, arg, env)
    \/ CanCall /\ \E uri \in {"blz://a"} : CallOpen(uri)
    \/ Release

Spec == Init /\ [][Next]_vars

\* ------------------------------------------------------------- properties
Keys == DOMAIN call.caps

After(op) == pc = "returned" /\ call.op = op

HasHandle == outcome.ret.tag = "handle"

WellFormed(dshape) == ~_is_str(dshape) \/ \E ds \in StructDShapes : Render(ds) = dshape.text

\* The structured datashape a well-formed argument denotes.
Meaning(dshape) ==
    IF _is_str(dshape) THEN CHOOSE ds \in StructDShapes : Render(ds) = dshape.text
    ELSE dshape

FullyFixed(dshape) ==
    /\ ~IsNone(dshape)
    /\ WellFormed(dshape)
    /\ \A i \in 1..Len(Meaning(dshape).dims) : Meaning(dshape).dims[i] # Unbound

VariantFor(keys) ==
    IF "efficient-write" \in keys THEN "native-buffer" ELSE "compressed-chunked"

SelectsFromCaps ==
    /\ pc = "returned"
    /\ \/ call.op \in {"_fromiter", "zeros", "ones"}
       \/ call.op = "array" /\ call.obj.kind \in {"generator", "list", "scalar", "object"}

\* C2: in the constructors that choose a backend from caps, efficient-write
\* is checked before compress: with both keys the descriptor is
\* native-buffer, a compressed-chunked descriptor appears only with
\* compress present and efficient-write absent, and a call that returns a
\* handle constructed exactly one engine store (never two).
C2_Priority ==
    SelectsFromCaps
    => /\ Len(outcome.built) <= 1
       /\ HasHandle =>
            /\ Len(outcome.built) = 1
            /\ outcome.ret.dd.variant =
                 (IF outcome.built[1] = "numpy" THEN "native-buffer" ELSE "compressed-chunked")
            /\ outcome.ret.dd.store.kind =
                 (IF outcome.built[1] = "numpy" THEN "ndarray" ELSE "barray")
       /\ (HasHandle /\ CapKeys \subseteq Keys) =>
            outcome.ret.dd.variant = "native-buffer" /\ outcome.built = <<"numpy">>
       /\ (HasHandle /\ outcome.ret.dd.variant = "compressed-chunked") =>
            "compress" \in Keys /\ "efficient-write" \notin Keys
       /\ "efficient-write" \in Keys => outcome.built # <<"blz">>

C2_Witness ==
    /\ After("zeros")
    /\ Keys = CapKeys
    /\ HasHandle
    /\ outcome.ret.dd.variant = "native-buffer"
    /\ outcome.built = <<"numpy">>

GenericObj == call.obj.kind \in {"list", "scalar", "object"}

\* C3 as stated: array() on a generic obj with neither capability key
\* fails with the TypeError of the last branch, for any dshape; with a
\* kind of branches 1-4 or with a key present that error is never raised.
C3_Original ==
    After("array")
    => /\ (GenericObj /\ Keys \cap CapKeys = {}) =>
            outcome.err = "TypeError" /\ ~HasHandle
       /\ (~GenericObj \/ Keys \cap CapKeys # {}) => outcome.err # "TypeError"

\* C3 (amended): the same, for a dshape that is absent, structured or
\* well-formed text (malformed text fails earlier, in the parser).
C3_Unsupported ==
    After("array")
    => /\ (GenericObj /\ Keys \cap CapKeys = {} /\ WellFormed(call.dshape)) =>
            /\ outcome.err = "TypeError"
            /\ ~HasHandle
            /\ outcome.built = <<>>
       /\ (~GenericObj \/ Keys \cap CapKeys # {}) => outcome.err # "TypeError"

C3_Witness ==
    /\ After("array")
    /\ call.obj.kind = "object"
    /\ call.caps = <<>>
    /\ call.given
    /\ call.dshape.form = "text"
    /\ WellFormed(call.dshape)
    /\ outcome.err = "TypeError"
    /\ ~HasHandle

\* C4: array(g, caps=caps) on a generator with a capability key present
\* and no dshape pulls every element of g once, leaves g exhausted, and
\* returns a handle whose store holds the elements g produced, in order,
\* its length their number; native-buffer with efficient-write, else
\* compressed-chunked.
C4_Generator ==
    (After("array") /\ call.obj.kind = "generator" /\ IsNone(call.dshape)
        /\ Keys \cap CapKeys # {})
    => /\ HasHandle
       /\ outcome.err = ""
       /\ outcome.obj.items = call.obj.items
       /\ outcome.obj.pos = Len(call.obj.items)
       /\ outcome.ret.dd.store.data = SubSeq(call.obj.items, call.obj.pos + 1, Len(call.obj.items))
       /\ outcome.ret.dd.store.shape = <<Len(call.obj.items) - call.obj.pos>>
       /\ outcome.ret.dd.variant = VariantFor(Keys)
       /\ outcome.ret.dd.store.id = 0

C4_Witness ==
    /\ After("array")
    /\ call.obj.kind = "generator"
    /\ IsNone(call.dshape)
    /\ Keys = {"compress"}
    /\ call.obj.items = [i \in 1..MaxLen |-> IF i = 1 THEN MaxElem ELSE 0]
    /\ HasHandle
    /\ outcome.obj.pos = MaxLen
    /\ outcome.ret.dd.variant = "compressed-chunked"
    /\ outcome.ret.dd.store.data = call.obj.items

FillOf(op) == IF op = "zeros" THEN 0 ELSE 1

C6_Fill ==
    (pc = "returned" /\ call.op \in {"zeros", "ones"} /\ FullyFixed(call.dshape)
        /\ Keys \cap CapKeys # {})
    => /\ HasHandle
       /\ outcome.err = ""
       /\ outcome.ret.dd.variant = VariantFor(Keys)
       /\ outcome.ret.dd.store.shape = Meaning(call.dshape).dims
       /\ outcome.ret.dd.store.dtype = Meaning(call.dshape).dtype
       /\ Len(outcome.ret.dd.store.data) = Product(Meaning(call.dshape).dims)
       /\ \A i \in 1..Len(outcome.ret.dd.store.data) :
             outcome.ret.dd.store.data[i] = FillOf(call.op)

C6_Witness ==
    /\ After("ones")
    /\ call.dshape.form = "text"
    /\ FullyFixed(call.dshape)
    /\ Meaning(call.dshape).dims = [i \in 1..MaxDims |-> MaxExtent]
    /\ Keys = {"compress"}
    /\ HasHandle
    /\ Len(outcome.ret.dd.store.data) >= MaxExtent
    /\ \A i \in 1..Len(outcome.ret.dd.store.data) : outcome.ret.dd.store.data[i] = 1

\* A descriptor that is whole: a variant, and a store whose contents fill
\* its shape.
FullyConstructed(dd) ==
    /\ dd.kind = "dd"
    /\ dd.variant \in DDVariants
    /\ Len(dd.store.data) = Product(dd.store.shape)

Constructors == {"array", "_fromiter", "zeros", "ones"}

\* C7: every call of array, _fromiter, zeros or ones either returns a
\* handle over one fully constructed descriptor, or ends in an error with
\* no handle; with neither capability key a generator input, or a call of
\* zeros or ones, constructs nothing and ends in an error.
C7_AllOrNothing ==
    (pc = "returned" /\ call.op \in Constructors)
    => /\ \/ HasHandle /\ outcome.err = "" /\ FullyConstructed(outcome.ret.dd)
          \/ ~HasHandle /\ outcome.err # ""
       /\ (Keys \cap CapKeys = {}
             /\ (call.op \in {"_fromiter", "zeros", "ones"} \/ call.obj.kind = "generator"))
          => /\ outcome.err # ""
             /\ ~HasHandle
             /\ outcome.built = <<>>
             /\ outcome.obj = call.obj

C7_Witness ==
    /\ After("array")
    /\ call.obj.kind = "generator"
    /\ Len(call.obj.items) = MaxLen
    /\ call.caps = <<>>
    /\ IsNone(call.dshape)
    /\ outcome.err = "UnboundLocalError"
    /\ ~HasHandle

\* C8: no call changes a capability dictionary: each function's default
\* dictionary is {'efficient-write': True} after any calls, the caller's
\* dictionary is as it was, so a call that leaves caps out sees the
\* pristine default whatever ran before.
C8_CapsUnchanged ==
    /\ defaults = [f \in Functions |-> DefaultCaps]
    /\ pc = "returned" =>
         /\ outcome.caps = call.caps
         /\ ~call.given => call.caps = DefaultCaps
         /\ (~call.given /\ HasHandle /\ outcome.built # <<>>) =>
               outcome.ret.dd.variant = "native-buffer"

C8_Witness ==
    /\ pc = "returned"
    /\ ncalls = MaxCalls
    /\ call.op = "array"
    /\ call.obj.kind = "generator"
    /\ ~call.given
    /\ HasHandle
    /\ outcome.ret.dd.variant = "native-buffer"

\* C9: malformed dshape text makes array() fail with the parser's error
\* before it looks at obj: no handle, nothing constructed, for every kind
\* of obj, and a generator is left where it was.
C9_ParseFirst ==
    (After("array") /\ ~WellFormed(call.dshape))
    => /\ outcome.err = "ParseError"
       /\ ~HasHandle
       /\ outcome.built = <<>>
       /\ outcome.obj = call.obj

C9_Witness ==
    /\ After("array")
    /\ call.obj.kind = "ndarray"
    /\ call.dshape.form = "text"
    /\ ~WellFormed(call.dshape)
    /\ outcome.err = "ParseError"
    /\ ~HasHandle

AllTrue(caps) == [k \in DOMAIN caps |-> TRUE]

\* The call made again with every flag of caps set to True.
Replay ==
    IF call.op = "array" THEN array(call.obj, call.dshape, AllTrue(call.caps))
    ELSE IF call.op = "_fromiter" THEN _fromiter(call.obj, call.dshape, AllTrue(call.caps))
    ELSE IF call.op = "zeros" THEN zeros(call.dshape, AllTrue(call.caps), call.env)
    ELSE ones(call.dshape, AllTrue(call.caps), call.env)

\* C10: the backend depends on which keys caps has, not on their flags:
\* {'efficient-write': False, 'compress': True} gives native-buffer,
\* {'compress': False} gives compressed-chunked, and a call returns and
\* raises what the same call with every flag True does.
C10_KeysOnly ==
    SelectsFromCaps
    => /\ (HasHandle /\ call.caps = [k \in CapKeys |-> k = "compress"]) =>
            outcome.ret.dd.variant = "native-buffer"
       /\ (HasHandle /\ call.caps = [k \in {"compress"} |-> FALSE]) =>
            outcome.ret.dd.variant = "compressed-chunked"
       /\ HasHandle => outcome.ret.dd.variant = VariantFor(Keys)
       /\ outcome.ret = Replay.ret
       /\ outcome.err = Replay.err

C10_Witness ==
    /\ After("ones")
    /\ call.caps = [k \in CapKeys |-> k = "compress"]
    /\ FullyFixed(call.dshape)
    /\ HasHandle
    /\ outcome.ret.dd.variant = "native-buffer"

====
